---- MODULE Spec2Model ----
(***************************************************************************)
(* Client-side page-enhancement layer of the blog: the TOC Builder, the    *)
(* Gallery Sorter and the Lightbox Controller.                             *)
(*                                                                         *)
(* One step of the model is one task of the browser's event loop: the      *)
(* dispatch of an event to its listener together with the microtasks       *)
(* (promise reactions) that the listener leaves behind, which the event    *)
(* loop drains before any other event is delivered.                        *)
(***************************************************************************)
EXTENDS Integers, Sequences, FiniteSets

(* ------------------------------ bounds -------------------------------- *)
MaxFigures == 3
MaxOverlays == 2
MaxHeadings == 2

\* natural sizes <<width, height>> an image can have once it is loaded
Dims == {<<4, 3>>, <<3, 3>>, <<6, 2>>, <<2, 2>>}
\* the sizes of the gallery of the example scenario: 400x300, 300x300, 600x200
ExampleSizes == <<<<4, 3>>, <<3, 3>>, <<6, 2>>>>
\* shapes of the markup around a gallery image: the link is the image's
\* parent, the link wraps the figure, the link is elsewhere in the figure
Shapes == {"parent", "wraps", "sibling"}
Tags == {"h1", "h2", "h3", "h4"}
HeadingIds == {"a", "b"}
Texts == {"T", "U"}

VARIABLES
  phase,        \* "loading" until DOMContentLoaded has been dispatched
  natural,      \* figure -> natural size of its image file
  linkShape,    \* markup shape of the gallery
  hasImg,       \* figure -> the figure holds an image element
  gridPresent,  \* the page has the #image-grid element
  galleryPresent, \* the page has an .image-gallery element
  imgState,     \* figure -> "loading" | "loaded" | "broken", or "inserted"
                \* for an image put into the figure after page-ready
  dimPromise,   \* figure -> state of getImageDimensions(img).then(...)
  aspectRatio,  \* figure -> item.dataset.aspectRatio
  joinState,    \* state of the Promise.all(...) promise
  reorderCount, \* number of runs of the sort-and-re-append callback
  grid,         \* child order of the grid: sequence of figures
  listening,    \* the gallery click listener is registered
  overlays,     \* the lightbox elements under document.body, in order
  headings,     \* headings of the article, in document order
  tocPresent,   \* the page has the #toc-list element
  toc,          \* children of #toc-list: <li><a href text>
  errors,       \* uncaught exceptions and unhandled rejections
  laterGrid,    \* child order of the grid of a second gallery on the
                \* page, <<>> on a page with one gallery
  lastClick,    \* the target of the click event dispatched last
  defaultPrevented  \* that event's defaultPrevented flag

vars == <<phase, natural, linkShape, hasImg, gridPresent, galleryPresent,
          imgState, dimPromise, aspectRatio, joinState, reorderCount, grid,
          listening, overlays, headings, tocPresent, toc, errors, laterGrid,
          lastClick, defaultPrevented>>

galleryVars == <<imgState, dimPromise, aspectRatio, joinState, reorderCount,
                 grid>>
configVars == <<natural, linkShape, hasImg, gridPresent, galleryPresent,
                headings, tocPresent, laterGrid>>

NumFigures == Len(natural)
Figures == 1..NumFigures

(* --------------------------- JS numbers ------------------------------- *)
\* A number is a pair <<n, d>> standing for n/d; <<n, 0>> with n > 0 is
\* Infinity and <<0, 0>> is NaN.  Natural sizes are small non-negative
\* integers, so the double n/d orders and separates exactly as the rational.
NaN == <<0, 0>>
IsNaN(x) == x[1] = 0 /\ x[2] = 0
IsInf(x) == x[1] > 0 /\ x[2] = 0

RECURSIVE Gcd(_, _)
Gcd(a, b) == IF b = 0 THEN a ELSE Gcd(b, a % b)

\* dimensions.width / dimensions.height
Divide(w, h) == <<w, h>>

\* the string a number is stored as in a data-* attribute: one string per
\* numeric value (the shortest decimal that reads back as the same double),
\* here the fraction in lowest terms
NumberToString(x) ==
  IF IsNaN(x) THEN [text |-> "NaN", n |-> 0, d |-> 0]
  ELSE IF IsInf(x) THEN [text |-> "Infinity", n |-> 0, d |-> 0]
  ELSE LET g == Gcd(x[1], x[2])
       IN [text |-> "decimal", n |-> x[1] \div g, d |-> x[2] \div g]

\* a data-* attribute that was never set reads as undefined
Undefined == [text |-> "undefined", n |-> 0, d |-> 0]

\* parseFloat of a dataset value
ParseFloat(s) ==
  IF s.text = "decimal" THEN <<s.n, s.d>>
  ELSE IF s.text = "Infinity" THEN <<1, 0>>
  ELSE NaN

\* x - y, as a number of the same sign: <<-1,1>>, <<0,1>>, <<1,1>>,
\* Infinity, or NaN
Minus(x, y) ==
  IF IsNaN(x) \/ IsNaN(y) THEN NaN
  ELSE IF IsInf(x) /\ IsInf(y) THEN NaN
  ELSE IF IsInf(x) THEN <<1, 0>>
  ELSE IF IsInf(y) THEN <<-1, 1>>
  ELSE LET l == x[1] * y[2]
           r == y[1] * x[2]
       IN IF l > r THEN <<1, 1>> ELSE IF l < r THEN <<-1, 1>> ELSE <<0, 1>>

(* ------------------------- Gallery Sorter ----------------------------- *)
\* faulty variant: the operands swapped, an ascending sort
ComparatorAscending(ratio, a, b) ==
  Minus(ParseFloat(ratio[a]), ParseFloat(ratio[b]))

\* the comparator handed to sort: parseFloat(b.ratio) - parseFloat(a.ratio)
Comparator(ratio, a, b) == Minus(ParseFloat(ratio[b]), ParseFloat(ratio[a]))

\* Array.prototype.sort's use of the comparator: a NaN result counts as +0
SortCompare(ratio, a, b) ==
  LET v == Comparator(ratio, a, b)
  IN IF IsNaN(v) THEN 0 ELSE IF v[1] > 0 THEN 1 ELSE IF v[1] < 0 THEN -1 ELSE 0

\* Array.prototype.sort on a short array: find the run the array starts
\* with (reversing a strictly descending one), then insert each remaining
\* element by binary search into the sorted prefix.
RECURSIVE RunLength(_, _, _, _)
RunLength(ratio, arr, idx, desc) ==
  IF idx > Len(arr) THEN Len(arr)
  ELSE LET order == SortCompare(ratio, arr[idx], arr[idx - 1])
       IN IF (desc /\ order >= 0) \/ (~desc /\ order < 0)
          THEN idx - 1
          ELSE RunLength(ratio, arr, idx + 1, desc)

ReverseRange(arr, len) ==
  [k \in 1..Len(arr) |-> IF k <= len THEN arr[len + 1 - k] ELSE arr[k]]

\* faulty variant: an element that compares equal goes before its equals
RECURSIVE BinarySearchTiesLeft(_, _, _, _, _)
BinarySearchTiesLeft(ratio, arr, pivot, left, right) ==
  IF left >= right THEN left
  ELSE LET mid == left + ((right - left) \div 2)
       IN IF SortCompare(ratio, pivot, arr[mid]) <= 0
          THEN BinarySearchTiesLeft(ratio, arr, pivot, left, mid)
          ELSE BinarySearchTiesLeft(ratio, arr, pivot, mid + 1, right)

\* position (1-based) at which pivot goes into arr[1..start-1]
RECURSIVE BinarySearch(_, _, _, _, _)
BinarySearch(ratio, arr, pivot, left, right) ==
  IF left >= right THEN left
  ELSE LET mid == left + ((right - left) \div 2)
       IN IF SortCompare(ratio, pivot, arr[mid]) < 0
          THEN BinarySearch(ratio, arr, pivot, left, mid)
          ELSE BinarySearch(ratio, arr, pivot, mid + 1, right)

RECURSIVE BinaryInsertionSort(_, _, _)
BinaryInsertionSort(ratio, arr, start) ==
  IF start > Len(arr) THEN arr
  ELSE LET pivot == arr[start]
           left == BinarySearch(ratio, arr, pivot, 1, start)
           moved == [k \in 1..Len(arr) |->
                       IF k < left \/ k > start THEN arr[k]
                       ELSE IF k = left THEN pivot
                       ELSE arr[k - 1]]
       IN BinaryInsertionSort(ratio, moved, start + 1)

ArraySort(ratio, arr) ==
  IF Len(arr) < 2 THEN arr
  ELSE LET desc == SortCompare(ratio, arr[2], arr[1]) < 0
           run == RunLength(ratio, arr, 3, desc)
           made == IF desc THEN ReverseRange(arr, run) ELSE arr
       IN BinaryInsertionSort(ratio, made, run + 1)

\* A comparator that returns NaN for some pair of elements is not a
\* consistent comparator; differences of non-NaN numbers always are one.
ConsistentComparator(ratio, arr) ==
  \A j, k \in 1..Len(arr) : ~IsNaN(Comparator(ratio, arr[j], arr[k]))

Permutations(arr) ==
  {p \in [1..Len(arr) -> {arr[k] : k \in 1..Len(arr)}] :
     \A j, k \in 1..Len(arr) : j # k => p[j] # p[k]}

\* The orders itemsWithRatios.sort(...) can leave: the stable sorted order
\* under a consistent comparator; otherwise the order is implementation-
\* defined, any permutation of the elements.
SortOutcomes(ratio, arr) ==
  IF ConsistentComparator(ratio, arr) THEN {ArraySort(ratio, arr)}
  ELSE Permutations(arr)

\* faulty variant: a copy of the node is appended, the node itself stays
AppendClone(children, item) == Append(children, item)

\* faulty variant: the item is inserted before the first child of the grid
PrependChild(children, item) ==
  <<item>> \o SelectSeq(children, LAMBDA c : c # item)

\* grid.appendChild(item): a node already in the grid is moved to the end
AppendChild(children, item) ==
  SelectSeq(children, LAMBDA c : c # item) \o <<item>>

\* itemsWithRatios.forEach((item) => grid.appendChild(item))
RECURSIVE AppendAll(_, _)
AppendAll(children, items) ==
  IF items = <<>> THEN children
  ELSE AppendAll(AppendChild(children, Head(items)), Tail(items))

\* items: the figures of the grid, collected in document order
Items == [i \in 1..NumFigures |-> i]

\* The children of the grid as the page is parsed: the figures, or, where
\* the links wrap the figures, the links, each holding its figure (-i, a
\* child that is no figure and holds figure i until it is moved out).
GridChildren ==
  [i \in 1..NumFigures |-> IF linkShape = "wraps" THEN -i ELSE i]

\* faulty variant: no img.complete branch, the sorter always waits for onload
NeverComplete(i) == FALSE

\* faulty variant: every image counts as complete when it is inspected
AlwaysComplete(i) == TRUE

\* faulty variant: an image counts as complete only if it has a size, so
\* the sorter waits for events of a broken image that have already fired
CompleteWithSize(i) == imgState[i] = "loaded"

\* img.complete, img.naturalWidth and img.naturalHeight
Complete(i) == imgState[i] # "loading"
NaturalSize(state, i) == IF state = "loaded" THEN natural[i] ELSE <<0, 0>>

\* faulty variant: height divided by width
RatioInverted(dimensions) ==
  NumberToString(Divide(dimensions[2], dimensions[1]))

\* the reaction to a resolved getImageDimensions promise
RatioOf(dimensions) ==
  NumberToString(Divide(dimensions[1], dimensions[2]))

\* faulty variant: a join that is fulfilled by its first fulfilled item
JoinOfAny(p) ==
  IF \E i \in DOMAIN p : p[i] = "fulfilled" THEN "fulfilled"
  ELSE IF \E i \in DOMAIN p : p[i] = "rejected" THEN "rejected"
  ELSE "pending"

\* faulty variant: a join that waits for every item to settle and is
\* fulfilled whatever the outcomes
JoinOfSettled(p) ==
  IF \A i \in DOMAIN p : p[i] # "pending" THEN "fulfilled" ELSE "pending"

\* the outcome of the join once the item promises are as in p
JoinOf(p) ==
  IF \E i \in DOMAIN p : p[i] = "rejected" THEN "rejected"
  ELSE IF \A i \in DOMAIN p : p[i] = "fulfilled" THEN "fulfilled"
  ELSE "pending"

\* faulty variant: the reaction does nothing while a lightbox is open
SortAndAppendUnlessOpen(ratio) ==
  IF overlays = <<>>
  THEN /\ \E sorted \in SortOutcomes(ratio, Items) :
            grid' = AppendAll(grid, sorted)
       /\ reorderCount' = reorderCount + 1
  ELSE UNCHANGED <<grid, reorderCount>>

\* the reaction to the fulfilled join: sort the items, re-append them
SortAndAppend(ratio) ==
  /\ \E sorted \in SortOutcomes(ratio, Items) : grid' = AppendAll(grid, sorted)
  /\ reorderCount' = reorderCount + 1

\* faulty variant: the sort runs in every item's reaction instead of the join's
SettleEach(p, ratio) ==
  LET join == IF joinState = "pending" THEN JoinOf(p) ELSE joinState
      runs == \E i \in DOMAIN p : p[i] = "fulfilled" /\ dimPromise[i] = "pending"
      fails == joinState = "pending" /\ join = "rejected"
  IN /\ dimPromise' = p
     /\ aspectRatio' = ratio
     /\ joinState' = join
     /\ IF runs THEN SortAndAppend(ratio)
                ELSE UNCHANGED <<grid, reorderCount>>
     /\ errors' = IF fails THEN errors \cup {"unhandledrejection"} ELSE errors

\* faulty variant: each item is re-appended by its own reaction, as its
\* image arrives, and the join's reaction sorts nothing
SettleInArrivalOrder(p, ratio) ==
  LET join == IF joinState = "pending" THEN JoinOf(p) ELSE joinState
      runs == joinState = "pending" /\ join = "fulfilled"
      fails == joinState = "pending" /\ join = "rejected"
      arrived == {i \in DOMAIN p : p[i] = "fulfilled" /\ dimPromise[i] = "pending"}
  IN /\ dimPromise' = p
     /\ aspectRatio' = ratio
     /\ joinState' = join
     /\ grid' = IF arrived = {} THEN grid
                ELSE AppendChild(grid, CHOOSE i \in arrived : TRUE)
     /\ reorderCount' = IF runs THEN reorderCount + 1 ELSE reorderCount
     /\ errors' = IF fails THEN errors \cup {"unhandledrejection"} ELSE errors

\* What a settled item promise leaves behind once the microtasks have run:
\* p and ratio are the item promises and the recorded ratios after it.
Settle(p, ratio) ==
  LET join == IF joinState = "pending" THEN JoinOf(p) ELSE joinState
      runs == joinState = "pending" /\ join = "fulfilled"
      fails == joinState = "pending" /\ join = "rejected"
  IN /\ dimPromise' = p
     /\ aspectRatio' = ratio
     /\ joinState' = join
     /\ IF runs THEN SortAndAppend(ratio)
                ELSE UNCHANGED <<grid, reorderCount>>
     /\ errors' = IF fails THEN errors \cup {"unhandledrejection"} ELSE errors

\* faulty variant: the executor attaches onload and onerror whatever the
\* state of the image
InspectedPending ==
  [i \in Figures |-> IF ~hasImg[i] THEN "rejected" ELSE "pending"]

\* The item promises as items.map(...) leaves them.  A figure without an
\* image hands null to getImageDimensions: the executor throws on
\* img.complete, which rejects the promise.
Inspected ==
  [i \in Figures |->
     IF ~hasImg[i] THEN "rejected"
     ELSE IF Complete(i) THEN "fulfilled" ELSE "pending"]

\* the first DOMContentLoaded listener of lightbox.js; without the grid
\* element grid.getElementsByTagName throws and ends the listener
GallerySorter ==
  IF ~gridPresent
  THEN UNCHANGED <<dimPromise, aspectRatio, joinState, grid, reorderCount>>
  ELSE LET p == Inspected
           ratio == [i \in Figures |->
                       IF p[i] = "fulfilled"
                       THEN RatioOf(NaturalSize(imgState[i], i))
                       ELSE aspectRatio[i]]
           join == JoinOf(p)
       IN /\ dimPromise' = p
          /\ aspectRatio' = ratio
          /\ joinState' = join
          /\ IF join = "fulfilled" THEN SortAndAppend(ratio)
                                   ELSE UNCHANGED <<grid, reorderCount>>

\* what that listener leaves uncaught: the TypeError of the missing grid,
\* or the rejection of the promise that the join's then(...) returned
SorterErrors ==
  IF ~gridPresent THEN {"TypeError: grid is null"}
  ELSE IF JoinOf(Inspected) = "rejected" THEN {"unhandledrejection"}
  ELSE {}

(* ------------------------ Lightbox Controller ------------------------- *)
\* the href of the link of figure i
Href(i) == <<"full", i>>

\* e.target.parentElement.href: only a link has an href
ParentHref(i) == IF linkShape = "parent" THEN Href(i) ELSE <<"undefined", 0>>

\* the element the click listener appends to the body
Lightbox(src) ==
  [className |-> "lightbox", children |-> <<[tagName |-> "IMG", src |-> src]>>]

\* faulty variant: the listener does not look at the target's tag name
TargetIsAnything(e) == TRUE

\* e.target.tagName === "IMG"
TargetIsImage(e) == e.tagName = "IMG"

\* faulty variant: preventDefault is called before the target is looked at
DefaultPreventedAlways(e) == TRUE

\* the gallery's listener calls e.preventDefault() for an image target
\* and for no other
DefaultPrevented(e) == TargetIsImage(e)

\* faulty variant: one image element, created once, is given the new
\* source and moved into each new lightbox
GalleryClickListenerSharedImg(e, parentHref) ==
  IF TargetIsImage(e)
  THEN overlays' =
         Append([k \in 1..Len(overlays) |->
                   [className |-> "lightbox", children |-> <<>>]],
                Lightbox(parentHref))
  ELSE overlays' = overlays

\* the click listener of the gallery, for a click on a target e whose
\* parent element has parentHref as its href
GalleryClickListener(e, parentHref) ==
  IF TargetIsImage(e)
  THEN overlays' = Append(overlays, Lightbox(parentHref))
  ELSE overlays' = overlays

\* faulty variant: the registration follows the sorter's code in one
\* listener, so the sorter's TypeError ends the listener before it
LightboxControllerSameListener == listening' = (galleryPresent /\ gridPresent)

\* the second DOMContentLoaded listener of lightbox.js
LightboxController == listening' = galleryPresent

\* The gallery containers of the page in document order, 1 the first and
\* 2 a later one: every include of the gallery template puts a container
\* of class image-gallery, holding a grid of id image-grid, on the page.
Galleries ==
  (IF galleryPresent THEN <<1>> ELSE <<>>)
    \o (IF laterGrid # <<>> THEN <<2>> ELSE <<>>)

\* faulty variant: the listener is added to the last container of the page
QuerySelectorLast(containers) ==
  IF containers = <<>> THEN 0 ELSE containers[Len(containers)]

\* document.querySelector(".image-gallery"): the first match in document
\* order, null (0) without one
QuerySelector(containers) ==
  IF containers = <<>> THEN 0 ELSE Head(containers)

\* the href of the link of figure j of the later gallery
LaterHref(j) == <<"later", j>>

\* faulty variant: the listener is added without looking whether the
\* gallery container was found
LightboxErrorsUnguarded ==
  IF ~galleryPresent THEN {"TypeError: gallery is null"} ELSE {}

\* what the Lightbox Controller leaves uncaught: nothing, as the listener
\* is added only if (gallery)
LightboxErrors == {}

\* faulty variant: the listeners share one lightbox variable, which holds
\* the overlay opened last
RemoveChildNewest(children, k) ==
  [j \in 1..(Len(children) - 1) |-> children[j]]

\* document.body.removeChild(lightbox), lightbox the k-th of the overlays
RemoveChild(children, k) ==
  [j \in 1..(Len(children) - 1) |->
     IF j < k THEN children[j] ELSE children[j + 1]]

\* removeChild throws for a node that is not a child of the body
RemoveChildErrors(children, k) ==
  IF k \in 1..Len(children) THEN {} ELSE {"NotFoundError"}

(* ---------------------------- TOC Builder ----------------------------- *)
\* faulty variant: the selector takes every heading of the article
HeadersAnyRank == SelectSeq(headings, LAMBDA h : h.inArticle)

\* faulty variant: the selector is not scoped to the article
HeadersAnywhere ==
  SelectSeq(headings, LAMBDA h : h.tag \in {"h1", "h2", "h3"})

\* querySelectorAll("article h1, article h2, article h3")
Headers ==
  SelectSeq(headings, LAMBDA h : h.inArticle /\ h.tag \in {"h1", "h2", "h3"})

\* the <li><a> built for a header
Entry(header) == [href |-> <<"#", header.id>>, text |-> header.text]

\* faulty variant: a header whose fragment is already linked is skipped
RECURSIVE AppendEntriesOnce(_, _)
AppendEntriesOnce(list, hs) ==
  IF hs = <<>> THEN list
  ELSE IF \E k \in 1..Len(list) : list[k].href = Entry(Head(hs)).href
       THEN AppendEntriesOnce(list, Tail(hs))
       ELSE AppendEntriesOnce(Append(list, Entry(Head(hs))), Tail(hs))

RECURSIVE AppendEntries(_, _)
AppendEntries(list, hs) ==
  IF hs = <<>> THEN list
  ELSE AppendEntries(Append(list, Entry(Head(hs))), Tail(hs))

\* the DOMContentLoaded listener of the TOC script: without the list
\* element the first tocList.appendChild throws and ends the listener
TocBuilder == toc' = IF tocPresent THEN AppendEntries(toc, Headers) ELSE toc

\* what that listener leaves uncaught
TocErrors ==
  IF ~tocPresent /\ Headers # <<>> THEN {"TypeError: tocList is null"} ELSE {}

(* ------------------------------ events -------------------------------- *)
\* faulty variant: the listeners are registered for an event that is
\* dispatched more than once (such as readystatechange)
DispatchedAgain ==
  /\ phase' = "ready"
  /\ Len(toc) < MaxHeadings + Len(headings)
  /\ TocBuilder
  /\ GallerySorter
  /\ LightboxController
  /\ errors' = errors \cup TocErrors \cup SorterErrors \cup LightboxErrors
  /\ UNCHANGED <<configVars, imgState, overlays, lastClick, defaultPrevented>>

\* the DOMContentLoaded event: its three listeners run one after another
DOMContentLoaded ==
  /\ phase = "loading"
  /\ phase' = "ready"
  /\ TocBuilder
  /\ GallerySorter
  /\ LightboxController
  /\ errors' = errors \cup TocErrors \cup SorterErrors \cup LightboxErrors
  /\ UNCHANGED <<configVars, imgState, overlays, lastClick, defaultPrevented>>

\* the image of figure i finishes loading
ImgLoad(i) ==
  /\ hasImg[i]
  /\ imgState[i] = "loading"
  /\ imgState' = [imgState EXCEPT ![i] = "loaded"]
  /\ IF dimPromise[i] = "pending"
     THEN Settle([dimPromise EXCEPT ![i] = "fulfilled"],
                 [aspectRatio EXCEPT ![i] = RatioOf(NaturalSize("loaded", i))])
     ELSE UNCHANGED <<dimPromise, aspectRatio, joinState, grid, reorderCount,
                      errors>>
  /\ UNCHANGED <<configVars, phase, listening, overlays, toc, lastClick,
                 defaultPrevented>>

\* the image of figure i fails to load
ImgError(i) ==
  /\ hasImg[i]
  /\ imgState[i] = "loading"
  /\ imgState' = [imgState EXCEPT ![i] = "broken"]
  /\ IF dimPromise[i] = "pending"
     THEN Settle([dimPromise EXCEPT ![i] = "rejected"], aspectRatio)
     ELSE UNCHANGED <<dimPromise, aspectRatio, joinState, grid, reorderCount,
                      errors>>
  /\ UNCHANGED <<configVars, phase, listening, overlays, toc, lastClick,
                 defaultPrevented>>

\* click targets: where the element is, and its tag name
NoTarget == [inGallery |-> FALSE, tagName |-> "none"]
ImageTarget == [inGallery |-> TRUE, tagName |-> "IMG"]
OverlayTarget == [inGallery |-> FALSE, tagName |-> "DIV"]
\* the image inside a lightbox: a click on it bubbles to the lightbox
OverlayImageTarget == [inGallery |-> FALSE, tagName |-> "IMG"]
\* a caption inside the gallery; an image and a paragraph outside of it
OtherTargets ==
  {[inGallery |-> TRUE, tagName |-> "FIGCAPTION"],
   [inGallery |-> FALSE, tagName |-> "IMG"],
   [inGallery |-> FALSE, tagName |-> "P"]}

\* faulty variant: the clicked image itself is moved into the lightbox
ClickImageMovesImage(i) ==
  /\ galleryPresent
  /\ hasImg[i]
  /\ listening => Len(overlays) < MaxOverlays
  /\ IF listening
     THEN /\ GalleryClickListener(ImageTarget, ParentHref(i))
          /\ hasImg' = [hasImg EXCEPT ![i] = FALSE]
          /\ defaultPrevented' = DefaultPrevented(ImageTarget)
     ELSE /\ UNCHANGED <<overlays, hasImg>>
          /\ defaultPrevented' = FALSE
  /\ lastClick' = ImageTarget
  /\ UNCHANGED <<natural, linkShape, gridPresent, galleryPresent, headings,
                 tocPresent, laterGrid, galleryVars, phase, listening, toc, errors>>

\* faulty variant: a click listener on each image the gallery holds at
\* page-ready, instead of one on the gallery
ClickImageOwnListener(i) ==
  /\ galleryPresent
  /\ hasImg[i]
  /\ listening => Len(overlays) < MaxOverlays
  /\ IF listening /\ imgState[i] # "inserted"
     THEN /\ GalleryClickListener(ImageTarget, ParentHref(i))
          /\ defaultPrevented' = DefaultPrevented(ImageTarget)
     ELSE /\ overlays' = overlays
          /\ defaultPrevented' = FALSE
  /\ lastClick' = ImageTarget
  /\ UNCHANGED <<configVars, galleryVars, phase, listening, toc, errors>>

\* A click on the image of figure i, inside the gallery.  Before
\* page-ready no listener is registered: the event runs none, and its
\* default action, following the link, takes place.  With the listener
\* registered the number of overlays is capped at MaxOverlays.
ClickImage(i) ==
  /\ galleryPresent
  /\ hasImg[i]
  /\ listening => Len(overlays) < MaxOverlays
  /\ IF listening
     THEN /\ GalleryClickListener(ImageTarget, ParentHref(i))
          /\ defaultPrevented' = DefaultPrevented(ImageTarget)
     ELSE /\ overlays' = overlays
          /\ defaultPrevented' = FALSE
  /\ lastClick' = ImageTarget
  /\ UNCHANGED <<configVars, galleryVars, phase, listening, toc, errors>>

\* A click on the k-th lightbox of the body, or on the image in it: the
\* target is the element clicked, and either way the event reaches the
\* lightbox's listener.
ClickOverlay(k) ==
  /\ k \in 1..Len(overlays)
  /\ overlays' = RemoveChild(overlays, k)
  /\ errors' = errors \cup RemoveChildErrors(overlays, k)
  /\ lastClick' \in {OverlayTarget, OverlayImageTarget}
  /\ defaultPrevented' = FALSE
  /\ UNCHANGED <<configVars, galleryVars, phase, listening, toc>>

\* A click on any other element e.  The gallery's listener runs for a
\* target inside the gallery once it is registered; an element that is not
\* an image is not the child of a link with an href.
ClickOther(e) ==
  /\ e.inGallery => galleryPresent
  /\ IF listening /\ e.inGallery
     THEN GalleryClickListener(e, <<"undefined", 0>>)
     ELSE overlays' = overlays
  /\ lastClick' = e
  /\ defaultPrevented' = (listening /\ e.inGallery /\ DefaultPrevented(e))
  /\ UNCHANGED <<configVars, galleryVars, phase, listening, toc, errors>>

\* an image of the later gallery
LaterImageTarget == [inGallery |-> FALSE, tagName |-> "IMG"]

\* A click on the image of figure j of the later gallery, a child of its
\* link.  The event reaches the click listener only if the container it
\* was added to is the later one; otherwise the link is followed.
ClickLaterImage(j) ==
  /\ j \in 1..Len(laterGrid)
  /\ (listening /\ QuerySelector(Galleries) = 2) => Len(overlays) < MaxOverlays
  /\ IF listening /\ QuerySelector(Galleries) = 2
     THEN /\ GalleryClickListener(LaterImageTarget, LaterHref(j))
          /\ defaultPrevented' = DefaultPrevented(LaterImageTarget)
     ELSE /\ overlays' = overlays
          /\ defaultPrevented' = FALSE
  /\ lastClick' = LaterImageTarget
  /\ UNCHANGED <<configVars, galleryVars, phase, listening, toc, errors>>

\* The page changes after page-ready: an image is put into figure i of the
\* gallery, which held none.  No script of the page is told, and none
\* looks at whether the new image loads.
InsertImage(i) ==
  /\ phase = "ready"
  /\ ~hasImg[i]
  /\ hasImg' = [hasImg EXCEPT ![i] = TRUE]
  /\ imgState' = [imgState EXCEPT ![i] = "inserted"]
  /\ UNCHANGED <<natural, linkShape, gridPresent, galleryPresent, headings,
                 tocPresent, laterGrid, dimPromise, aspectRatio, joinState, reorderCount,
                 grid, phase, listening, overlays, toc, errors, lastClick,
                 defaultPrevented>>

(* --------------------------- specification ---------------------------- *)
\* the page as the browser has parsed it, before any script has run
Unscripted ==
  /\ phase = "loading"
  /\ imgState = [i \in Figures |-> "loading"]
  /\ dimPromise = [i \in Figures |-> "none"]
  /\ aspectRatio = [i \in Figures |-> Undefined]
  /\ joinState = "none"
  /\ reorderCount = 0
  /\ listening = FALSE
  /\ overlays = <<>>
  /\ toc = <<>>
  /\ errors = {}
  /\ lastClick = NoTarget
  /\ defaultPrevented = FALSE

\* a page with one gallery, whose grid holds the figures or their links
\* and nothing else
Parsed ==
  /\ Unscripted
  /\ grid = GridChildren
  /\ laterGrid = <<>>

HeadingSet == [tag : Tags, inArticle : BOOLEAN, id : HeadingIds, text : Texts]

ExampleHeadings ==
  <<[tag |-> "h1", inArticle |-> TRUE, id |-> "a", text |-> "T"],
    [tag |-> "h2", inArticle |-> TRUE, id |-> "b", text |-> "U"]>>

\* the sizes of the example's gallery, repeated up to n figures
ExampleGallery(n) ==
  [i \in 1..n |-> ExampleSizes[((i - 1) % Len(ExampleSizes)) + 1]]

\* every figure holds an image, in a grid inside a gallery container
FullGallery ==
  /\ hasImg = [i \in Figures |-> TRUE]
  /\ gridPresent = TRUE
  /\ galleryPresent = TRUE

\* an article page with two headings and a gallery of up to MaxFigures
\* figures, of the example's sizes, in any of the markup shapes
Init ==
  /\ \E n \in 0..MaxFigures : natural = ExampleGallery(n)
  /\ linkShape \in Shapes
  /\ FullGallery
  /\ headings = ExampleHeadings
  /\ tocPresent = TRUE
  /\ Parsed

Load == \E i \in Figures : ImgLoad(i)
Error == \E i \in Figures : ImgError(i)
GalleryClick == \E i \in Figures : ClickImage(i)
OverlayClick == \E k \in 1..MaxOverlays : ClickOverlay(k)
OtherClick == \E e \in OtherTargets : ClickOther(e)

Next ==
  \/ DOMContentLoaded
  \/ Load
  \/ Error
  \/ GalleryClick
  \/ OverlayClick
  \/ OtherClick

Spec == Init /\ [][Next]_vars

\* The Gallery Sorter on every gallery of up to MaxFigures figures with
\* sizes from Dims, on a page nobody clicks on.
InitSorter ==
  /\ \E n \in 0..MaxFigures : natural \in [1..n -> Dims]
  /\ linkShape = "parent"
  /\ FullGallery
  /\ headings = ExampleHeadings
  /\ tocPresent = TRUE
  /\ Parsed

NextSorter ==
  \/ DOMContentLoaded
  \/ Load
  \/ Error

SorterSpec == InitSorter /\ [][NextSorter]_vars

\* what the DOMContentLoaded step does to phase: enabled exactly when
\* DOMContentLoaded is, and the only step of Next that does it
PageReady == phase = "loading" /\ phase' = "ready"

\* The browser dispatches DOMContentLoaded once the document is parsed;
\* whether and when an image loads or a user clicks is up to the world.
LiveSpec == SorterSpec /\ WF_phase(PageReady)

\* The TOC Builder on every document of up to MaxHeadings headings, inside
\* or outside the article, with or without the list element.
InitToc ==
  /\ \E n \in 0..MaxHeadings : headings \in [1..n -> HeadingSet]
  /\ tocPresent \in BOOLEAN
  /\ natural = <<<<4, 3>>>>
  /\ linkShape = "parent"
  /\ FullGallery
  /\ Parsed

NextToc == DOMContentLoaded

SpecToc == InitToc /\ [][NextToc]_vars

\* Pages that lack what the gallery scripts look for: the grid or the
\* gallery container may be missing, and a figure may hold no image (its
\* entry in natural then stands for nothing).
InitSparse ==
  /\ \E n \in 0..MaxFigures :
       /\ natural = ExampleGallery(n)
       /\ hasImg \in [1..n -> BOOLEAN]
  /\ linkShape = "parent"
  /\ gridPresent \in BOOLEAN
  /\ galleryPresent \in BOOLEAN
  /\ headings = ExampleHeadings
  /\ tocPresent = TRUE
  /\ Parsed

SpecSparse == InitSparse /\ [][Next]_vars

\* A gallery whose contents change after page-ready: figures that hold no
\* image at first are given one later.
InitDynamic ==
  /\ \E n \in 0..MaxFigures :
       /\ natural = ExampleGallery(n)
       /\ hasImg \in [1..n -> BOOLEAN]
  /\ linkShape = "parent"
  /\ gridPresent = TRUE
  /\ galleryPresent = TRUE
  /\ headings = ExampleHeadings
  /\ tocPresent = TRUE
  /\ Parsed

Insert == \E i \in Figures : InsertImage(i)

NextDynamic ==
  \/ DOMContentLoaded
  \/ Load
  \/ Error
  \/ GalleryClick
  \/ OverlayClick
  \/ Insert

SpecDynamic == InitDynamic /\ [][NextDynamic]_vars

\* A page that includes the gallery template twice, as the about page
\* does: a second gallery of up to MaxFigures figures follows the first.
InitTwoGalleries ==
  /\ \E n \in 0..MaxFigures : natural = ExampleGallery(n)
  /\ \E m \in 1..MaxFigures : laterGrid = [j \in 1..m |-> j]
  /\ linkShape = "parent"
  /\ FullGallery
  /\ headings = ExampleHeadings
  /\ tocPresent = TRUE
  /\ Unscripted
  /\ grid = GridChildren

LaterClick == \E j \in 1..MaxFigures : ClickLaterImage(j)

NextTwoGalleries ==
  \/ DOMContentLoaded
  \/ Load
  \/ Error
  \/ GalleryClick
  \/ OverlayClick
  \/ LaterClick

SpecTwoGalleries == InitTwoGalleries /\ [][NextTwoGalleries]_vars

\* The children a grid of n figures can have.  A child is figure k (k),
\* an element that is no figure and holds figure k (-k) until the figure
\* is moved out of it, or an element that is no figure and holds none
\* (0); the figures are numbered in document order.
GridLayouts(n) ==
  LET Plain(w) == [k \in 1..n |-> IF w[k] THEN -k ELSE k]
      WithOther(s, p) == SubSeq(s, 1, p) \o <<0>> \o SubSeq(s, p + 1, n)
  IN {Plain(w) : w \in [1..n -> BOOLEAN]}
       \cup {WithOther(Plain(w), p) : w \in [1..n -> BOOLEAN], p \in 0..n}

\* The Gallery Sorter on grids that hold more than figures as children:
\* figures nested in other elements, and elements that are no figures.
InitNested ==
  /\ \E n \in 0..MaxFigures :
       /\ natural = ExampleGallery(n)
       /\ grid \in GridLayouts(n)
  /\ laterGrid = <<>>
  /\ linkShape = "parent"
  /\ FullGallery
  /\ headings = ExampleHeadings
  /\ tocPresent = TRUE
  /\ Unscripted

SpecNested == InitNested /\ [][NextSorter]_vars

(* ------------------------------ claims -------------------------------- *)
Position(seq, x) == CHOOSE k \in 1..Len(seq) : seq[k] = x
AllSettled == \A i \in Figures : imgState[i] # "loading"
AllLoaded == \A i \in Figures : imgState[i] = "loaded"
\* the image of figure i is wider, relative to its height, than that of j
Wider(i, j) == natural[i][1] * natural[j][2] > natural[j][1] * natural[i][2]
SameRatio(i, j) == natural[i][1] * natural[j][2] = natural[j][1] * natural[i][2]
\* the children of g that are no figures, in their order
NonFigures(g) == SelectSeq(g, LAMBDA c : c <= 0)
\* the last n children of g
LastChildren(g, n) == SubSeq(g, Len(g) - n + 1, Len(g))

\* C1: while some figure's image has fired neither load nor error, the
\* grid's figure order is the original order and no reorder step has run.
C1_JoinCorrectness ==
  (\E i \in Figures : imgState[i] = "loading")
    => (grid = Items /\ reorderCount = 0)

\* the sorter is waiting for an image although two loaded figures are
\* already out of order
C1_Witness ==
  /\ phase = "ready"
  /\ \E i \in Figures : imgState[i] = "loading"
  /\ \E j, k \in Figures :
       /\ j < k
       /\ dimPromise[j] = "fulfilled" /\ dimPromise[k] = "fulfilled"
       /\ imgState[j] = "loaded" /\ imgState[k] = "loaded"
       /\ Wider(k, j)

\* C2: once the sort has completed on a gallery whose images all loaded
\* with pairwise distinct aspect ratios, the grid's figure order is
\* non-increasing in natural width / natural height.
C2_SortTotality ==
  (/\ reorderCount >= 1
   /\ AllLoaded
   /\ \A i, j \in Figures : i # j => ~SameRatio(i, j))
    => /\ Len(grid) = NumFigures
       /\ \A j, k \in 1..Len(grid) : j < k => ~Wider(grid[k], grid[j])

\* images 400x300, 300x300, 600x200 end as [600x200, 400x300, 300x300]
C2_Witness ==
  /\ natural = <<<<4, 3>>, <<3, 3>>, <<6, 2>>>>
  /\ AllLoaded
  /\ reorderCount = 1
  /\ grid = <<3, 1, 2>>


\* C3: from the Closed state, the listener registered, a click on a
\* gallery image leaves exactly one overlay in the body, holding one image
\* whose source is the URL of the clicked image's link.
C3_LightboxOpen ==
  [][\A i \in Figures :
       (listening /\ overlays = <<>> /\ ClickImage(i))
         => overlays' = <<[className |-> "lightbox",
                           children |-> <<[tagName |-> "IMG",
                                           src |-> Href(i)]>>]>>]_vars

\* C4: a click on an open overlay removes it and leaves zero overlays.
C4_LightboxClose ==
  [][\A k \in 1..MaxOverlays : ClickOverlay(k) => overlays' = <<>>]_vars

\* C5: at most one lightbox overlay is in the document in every state.
C5_AtMostOneOverlay == Len(overlays) <= 1

\* the headings the table of contents is about: in the article, ranks h1-h3
TopRank(h) == h.inArticle /\ (h.tag = "h1" \/ h.tag = "h2" \/ h.tag = "h3")
NumTopRank == Cardinality({k \in 1..Len(headings) : TopRank(headings[k])})
\* the position in the document of the n-th heading of ranks h1 to h3
NthTopRank(n) ==
  CHOOSE k \in 1..Len(headings) :
    /\ TopRank(headings[k])
    /\ Cardinality({j \in 1..k : TopRank(headings[j])}) = n
UniqueIds ==
  \A j, k \in 1..Len(headings) :
    (j # k /\ TopRank(headings[j]) /\ TopRank(headings[k]))
      => headings[j].id # headings[k].id

\* C6: with the list element present and N article headings of ranks h1-h3
\* carrying unique identifiers, after page-ready the list holds exactly N
\* entries, in document order, the i-th linking to '#' + the i-th heading's
\* identifier with that heading's text.
C6_TocCompleteness ==
  (phase = "ready" /\ tocPresent /\ UniqueIds)
    => /\ Len(toc) = NumTopRank
       /\ \A n \in 1..Len(toc) :
            /\ toc[n].href = <<"#", headings[NthTopRank(n)].id>>
            /\ toc[n].text = headings[NthTopRank(n)].text

\* a built list of two entries, for headings "b" then "a"
C6_Witness ==
  /\ phase = "ready" /\ tocPresent /\ UniqueIds
  /\ Len(toc) = 2 /\ NumTopRank = 2
  /\ toc[1] = [href |-> <<"#", "b">>, text |-> "T"]
  /\ toc[2] = [href |-> <<"#", "a">>, text |-> "U"]

\* every image is complete and none fired its error event at the sorter:
\* each was complete at page-ready or has fired its load event since
NoneFailed == AllSettled /\ \A i \in Figures : dimPromise[i] # "rejected"

\* C7: if every figure's image is complete at page-ready or later fires
\* its load event, the grid is eventually reordered.
C7_GalleryLiveness == NoneFailed ~> (reorderCount = 1)

\* the reorder ran after the sorter had waited for a load event
C7_Witness ==
  /\ reorderCount = 1
  /\ NumFigures >= 2
  /\ grid # Items
  /\ AllLoaded

\* C8: the reorder step runs at most once, and the grid's child order
\* changes in that step only: never before it, never after it.
C8_ReorderOnce ==
  [][/\ reorderCount' # reorderCount
          => (reorderCount = 0 /\ reorderCount' = 1)
     /\ grid' # grid => (reorderCount = 0 /\ reorderCount' = 1)]_vars

\* after the reorder: an overlay was opened, or an image failed late
C8_Witness ==
  /\ reorderCount = 1
  /\ grid # Items
  /\ overlays # <<>>

\* C9: in every state the grid holds exactly the figures collected at
\* page-ready, each once, and no step changes an image's natural size.
C9_Permutation ==
  /\ [](/\ Len(grid) = NumFigures
        /\ \A i \in Figures : \E k \in 1..Len(grid) : grid[k] = i)
  /\ [][natural' = natural]_vars

\* a reorder that moved figures has happened
C9_Witness ==
  /\ reorderCount = 1
  /\ NumFigures = MaxFigures
  /\ grid # Items

\* two figures have the same finite aspect ratio on record
EqualRatio(i, j) ==
  Minus(ParseFloat(aspectRatio[i]), ParseFloat(aspectRatio[j])) = <<0, 1>>
Stable ==
  \A i, j \in Figures :
    (i < j /\ EqualRatio(i, j)) => Position(grid, i) < Position(grid, j)

\* C10 as stated: after the sort, any two items of equal aspect ratio are
\* in their original relative order.
C10_Stability_AsStated == reorderCount >= 1 => Stable

\* C10: after the sort of a gallery in which every image has a finite
\* aspect ratio (none is broken), any two items of equal aspect ratio are
\* in their original relative order.
C10_Stability == (reorderCount >= 1 /\ AllLoaded) => Stable

\* a tie that the sort had to carry past a wider image
C10_Witness ==
  /\ reorderCount = 1
  /\ AllLoaded
  /\ NumFigures = 3
  /\ SameRatio(1, 3) /\ Wider(2, 1)
  /\ grid = <<2, 1, 3>>

\* everything of the page but the record of the last click
domVars == <<configVars, galleryVars, phase, listening, overlays, toc, errors>>

\* C11: a click on an element outside the gallery container, or on an
\* element inside it that is not an image, creates no overlay and leaves
\* the whole DOM unchanged.
C11_NonInterference ==
  [][\A e \in OtherTargets : ClickOther(e) => UNCHANGED domVars]_vars

\* the registered listener has just been run for a click on a caption
C11_Witness ==
  /\ listening
  /\ lastClick = [inGallery |-> TRUE, tagName |-> "FIGCAPTION"]
  /\ overlays = <<>>
  /\ NumFigures >= 1

\* C12: for as long as the image of some figure has fired neither load nor
\* error, the join is not fulfilled and the grid keeps its original figure
\* order, however many of the other images have loaded; for ever, if that
\* image never fires.
C12_NeverLoads ==
  \A i \in Figures :
    imgState[i] = "loading" => (joinState # "fulfilled" /\ grid = Items)

\* all images but one have loaded, and the join is still pending
C12_Witness ==
  /\ NumFigures = MaxFigures
  /\ joinState = "pending"
  /\ Cardinality({i \in Figures : imgState[i] = "loading"}) = 1
  /\ \A i \in Figures : imgState[i] # "broken"
  /\ grid = Items

\* C13 as stated: once the image of any figure has fired a load error, its
\* aspect-ratio resolution has failed and the grid stays in its original
\* figure order.
C13_ErrorStopsSort_AsStated ==
  \A i \in Figures :
    (phase = "ready" /\ imgState[i] = "broken")
      => (dimPromise[i] = "rejected" /\ grid = Items)

\* C13: if an image that was not yet complete when the sorter inspected it
\* (at page-ready) fires a load error, its aspect-ratio resolution fails
\* and so does the join, for good: the reorder never runs and the grid
\* stays in its original figure order in every later state.
C13_ErrorStopsSort ==
  /\ [][\A i \in Figures :
         (phase = "ready" /\ ImgError(i))
           => (dimPromise'[i] = "rejected" /\ joinState' = "rejected")]_vars
  /\ [][joinState = "rejected" => joinState' = "rejected"]_vars
  /\ [](joinState = "rejected" => (grid = Items /\ reorderCount = 0))

\* one image failed after page-ready; the others have loaded since, two of
\* them out of order
C13_Witness ==
  /\ joinState = "rejected"
  /\ NumFigures = MaxFigures
  /\ Cardinality({i \in Figures : imgState[i] = "broken"}) = 1
  /\ \A i \in Figures :
       IF imgState[i] = "broken" THEN dimPromise[i] = "rejected"
       ELSE imgState[i] = "loaded" /\ dimPromise[i] = "fulfilled"
  /\ \E j, k \in Figures :
       j < k /\ imgState[j] = "loaded" /\ imgState[k] = "loaded" /\ Wider(k, j)
  /\ grid = Items

\* C14: no component ever surfaces an uncaught error; an image-load failure
\* leaves neither an uncaught exception nor an unhandled promise rejection.
C14_NoUncaughtError == errors = {}

\* C15: on a page without the TOC list element the TOC Builder raises no
\* error and changes nothing, however many headings the article has.
C15_MissingTocList ==
  ~tocPresent => ("TypeError: tocList is null" \notin errors /\ toc = <<>>)

\* what the Gallery Sorter can leave uncaught
SorterFailures == {"TypeError: grid is null", "unhandledrejection"}

\* C16: on a page without the grid element the page-ready handler of the
\* Gallery Sorter raises no error and changes nothing.
C16_MissingGrid ==
  ~gridPresent
    => /\ errors \cap SorterFailures = {}
       /\ grid = Items

\* C17: on a grid without images (no figures, or figures that hold no
\* image) the Gallery Sorter changes no order, and no error or rejected
\* promise results.
C17_NoImages ==
  (gridPresent /\ \A i \in Figures : ~hasImg[i])
    => /\ errors \cap SorterFailures = {}
       /\ joinState # "rejected"
       /\ \A i \in Figures : dimPromise[i] # "rejected"
       /\ grid = Items

\* C18: with the list element present and no article heading of ranks
\* h1-h3 in the document, the list has no entry after page-ready and no
\* error was raised.
C18_TocEmptiness ==
  (phase = "ready" /\ tocPresent /\ NumTopRank = 0)
    => (toc = <<>> /\ errors = {})

\* the builder has run on a document whose only headings are an h4 of the
\* article and an h1 outside of it
C18_Witness ==
  /\ phase = "ready" /\ tocPresent
  /\ Len(headings) = 2
  /\ \E j, k \in 1..2 :
       /\ headings[j].tag = "h4" /\ headings[j].inArticle
       /\ headings[k].tag = "h1" /\ ~headings[k].inArticle
  /\ toc = <<>>
  /\ errors = {}

\* what an image event does to the image: its load event, either event
ImgLoads ==
  \E i \in Figures : imgState[i] = "loading" /\ imgState'[i] = "loaded"
ImgEvent == imgState' # imgState

IsPrefix(a, b) == Len(a) <= Len(b) /\ SubSeq(b, 1, Len(a)) = a
\* the grid with its figures: their order, their images and what is
\* recorded on them
gridRegion == <<grid, hasImg, natural, aspectRatio>>

\* C19: the components change disjoint regions.  The headings never
\* change; the list only grows by entries appended in the page-ready step;
\* the grid region changes only in the page-ready step or on an image
\* load, and then only in the order of the same figures and in the ratios
\* recorded on them; the overlays change only on clicks; a click changes
\* neither list nor grid, an image event neither list nor overlays, and
\* the page-ready step no overlay.
C19_DisjointRegions ==
  [][/\ headings' = headings
     /\ toc' # toc => (PageReady /\ IsPrefix(toc, toc'))
     /\ gridRegion' # gridRegion
          => /\ PageReady \/ ImgLoads
             /\ hasImg' = hasImg /\ natural' = natural
             /\ Len(grid') = Len(grid)
             /\ \A i \in Figures : \E k \in 1..Len(grid') : grid'[k] = i
     /\ overlays' # overlays => (GalleryClick \/ OverlayClick)
     /\ (GalleryClick \/ OverlayClick \/ OtherClick)
          => UNCHANGED <<toc, gridRegion>>
     /\ ImgEvent => UNCHANGED <<toc, overlays>>
     /\ PageReady => overlays' = overlays]_vars

\* each component has changed its region: the list is built, the grid is
\* reordered and an overlay is open
C19_Witness ==
  /\ Len(toc) = Len(headings) /\ toc # <<>>
  /\ reorderCount = 1 /\ grid # Items
  /\ Len(overlays) = 1
  /\ lastClick = ImageTarget

\* C20: nothing runs before page-ready, and each component initialises
\* once.  Until the page-ready step the list is empty, the grid in its
\* original order with no ratio recorded, no overlay exists and no
\* listener is registered; the page becomes ready once; after that step
\* the list never changes again, grid and ratios change only on an image
\* load and the overlays only on a click.
C20_RunOnce ==
  /\ [](phase = "loading"
          => /\ toc = <<>> /\ overlays = <<>> /\ ~listening
             /\ grid = GridChildren /\ reorderCount = 0 /\ joinState = "none"
             /\ \A i \in Figures :
                  aspectRatio[i] = Undefined /\ dimPromise[i] = "none")
  /\ [][phase = "ready"
          => /\ phase' = "ready"
             /\ toc' = toc
             /\ listening' = listening
             /\ <<grid, aspectRatio>>' # <<grid, aspectRatio>> => ImgLoads
             /\ overlays' # overlays => (GalleryClick \/ OverlayClick)]_vars

\* after page-ready: an image load triggered the reorder and an overlay
\* was opened and closed again, the list being as the builder left it
C20_Witness ==
  /\ phase = "ready"
  /\ toc = <<Entry(headings[1]), Entry(headings[2])>>
  /\ reorderCount = 1 /\ grid # Items
  /\ overlays = <<>> /\ lastClick = OverlayTarget

\* C21: duplicate identifiers are not corrected.  With the list element
\* present, two article headings of ranks h1-h3 that share an identifier
\* have an entry each, at their places in document order, and both
\* entries link to the same fragment.
C21_DuplicateIds ==
  (phase = "ready" /\ tocPresent)
    => \A m, n \in 1..NumTopRank :
         (m < n /\ headings[NthTopRank(m)].id = headings[NthTopRank(n)].id)
           => /\ Len(toc) >= n
              /\ toc[m].href = toc[n].href
              /\ toc[m].href = <<"#", headings[NthTopRank(m)].id>>
              /\ toc[m].text = headings[NthTopRank(m)].text
              /\ toc[n].text = headings[NthTopRank(n)].text

\* two headings of identifier "a" with different texts, two entries
C21_Witness ==
  /\ phase = "ready" /\ tocPresent
  /\ NumTopRank = 2 /\ ~UniqueIds
  /\ toc = <<[href |-> <<"#", "a">>, text |-> "U"],
             [href |-> <<"#", "a">>, text |-> "T"]>>

\* the image source of the overlay appended last
NewestSrc(os) == os[Len(os)].children[1].src

\* C22: in every markup shape the page contract allows (the link is the
\* image's parent, wraps the figure, or is elsewhere in the figure), the
\* image of the overlay a click opens, the listener registered, has the
\* href of the clicked image's link as its source.
C22_SourceIsLinkHref ==
  [][\A i \in Figures :
       (listening /\ ClickImage(i))
         => (overlays' # <<>> /\ NewestSrc(overlays') = Href(i))]_vars

\* the string s records the quotient w / h
Records(s, w, h) ==
  IF w = 0 /\ h = 0 THEN s.text = "NaN"
  ELSE IF h = 0 THEN s.text = "Infinity"
  ELSE s.text = "decimal" /\ s.n * h = s.d * w

\* C23: in the step that reorders the grid, every collected figure has an
\* aspect ratio recorded on it, the quotient of the natural width and
\* height its image had when its dimensions resolved (0 and 0 for a
\* broken image); none enters the sort without a recorded ratio.
C23_RatiosRecorded ==
  [][reorderCount' # reorderCount
       => \A i \in Figures :
            /\ aspectRatio'[i] # Undefined
            /\ dimPromise'[i] = "fulfilled"
            /\ Records(aspectRatio'[i],
                       NaturalSize(imgState'[i], i)[1],
                       NaturalSize(imgState'[i], i)[2])]_vars

\* a reorder of three figures of ratios 4/3, 1 and 3
C23_Witness ==
  /\ reorderCount = 1
  /\ AllLoaded
  /\ NumFigures = 3
  /\ aspectRatio = <<[text |-> "decimal", n |-> 4, d |-> 3],
                     [text |-> "decimal", n |-> 1, d |-> 1],
                     [text |-> "decimal", n |-> 3, d |-> 1]>>

\* C24: an image that is complete when it is inspected resolves in the
\* page-ready step itself, with its ratio recorded; if every image is
\* complete then, the reorder happens in that step, with no image event
\* delivered to the sorter; and a pending join is waiting for images that
\* were not complete, and only for them.
C24_CompleteResolvesAtOnce ==
  /\ [][PageReady
          => /\ \A i \in Figures :
                  imgState[i] # "loading"
                    => (dimPromise'[i] = "fulfilled"
                        /\ aspectRatio'[i] # Undefined)
             /\ (\A i \in Figures : imgState[i] # "loading")
                  => (joinState' = "fulfilled" /\ reorderCount' = 1)]_vars
  /\ [](/\ joinState = "pending" => \E i \in Figures : imgState[i] = "loading"
        /\ \A i \in Figures :
             dimPromise[i] = "pending" => imgState[i] = "loading")

\* a mixed gallery right after page-ready: one image was complete and is
\* resolved, the join waits for the other two
C24_Witness ==
  /\ phase = "ready"
  /\ NumFigures = 3
  /\ joinState = "pending"
  /\ imgState = <<"loading", "loaded", "loading">>
  /\ dimPromise = <<"pending", "fulfilled", "pending">>
  /\ aspectRatio[2] # Undefined

\* the one order of the figures that is descending in width / height and
\* keeps figures of equal ratio in their original order
InRatioOrder(g) ==
  /\ Len(g) = NumFigures
  /\ \A i \in Figures : \E k \in 1..Len(g) : g[k] = i
  /\ \A j, k \in 1..Len(g) :
       j < k => \/ Wider(g[j], g[k])
                \/ (SameRatio(g[j], g[k]) /\ g[j] < g[k])

\* C25: for a gallery in which all images load, the final grid order is
\* the same whatever the order in which the load events arrived, before
\* or after page-ready: it is the order the natural sizes determine.
C25_OrderIndependent == (reorderCount >= 1 /\ AllLoaded) => InRatioOrder(grid)

\* the final order of a gallery of 300x300, 600x200 and 400x300
C25_Witness ==
  /\ natural = <<<<3, 3>>, <<6, 2>>, <<4, 3>>>>
  /\ AllLoaded
  /\ reorderCount = 1
  /\ grid = <<2, 3, 1>>

\* C26: the lightbox is re-entrant.  After an overlay has been closed, a
\* click on a gallery image from the Closed state leaves exactly one
\* overlay, whose image has the link target of the image clicked now as
\* its source.
C26_Reentrant ==
  [][\A i \in Figures :
       (overlays = <<>> /\ lastClick = OverlayTarget /\ ClickImage(i))
         => (Len(overlays') = 1 /\ NewestSrc(overlays') = Href(i))]_vars

\* os without its k-th element
Without(os, k) == SubSeq(os, 1, k - 1) \o SubSeq(os, k + 1, Len(os))

\* C27: every overlay in the document is a child of the body holding
\* exactly one image element, and from its creation to its removal that
\* image keeps its source: a step leaves the overlays as they are, adds
\* one after them, or removes one, the others staying as they were.
C27_OverlayOwnsImage ==
  /\ [](\A k \in 1..Len(overlays) :
          /\ overlays[k].className = "lightbox"
          /\ Len(overlays[k].children) = 1
          /\ overlays[k].children[1].tagName = "IMG")
  /\ [][\/ overlays' = overlays
        \/ Len(overlays') = Len(overlays) + 1 /\ IsPrefix(overlays, overlays')
        \/ \E k \in 1..Len(overlays) : overlays' = Without(overlays, k)]_vars

\* two overlays of different sources are open, the older one first
C27_Witness ==
  /\ Len(overlays) = 2
  /\ linkShape = "parent"
  /\ overlays[1].children[1].src = Href(2)
  /\ overlays[2].children[1].src = Href(1)

\* C28: one listener on the gallery serves whatever images the gallery
\* holds when the click comes: once it is registered, a click on an
\* image that was put into the gallery after page-ready, or that the
\* reorder has moved, opens an overlay, and every click on an image opens
\* exactly one.
C28_DelegatedListener ==
  [][\A i \in Figures :
       (listening /\ ClickImage(i))
         => /\ Len(overlays') = Len(overlays) + 1
            /\ IsPrefix(overlays, overlays')]_vars

\* an image that was put into figure i after page-ready has been clicked
\* and its overlay is open
C28_Witness ==
  \E i \in Figures :
    /\ imgState[i] = "inserted" /\ hasImg[i]
    /\ dimPromise[i] = "rejected"
    /\ overlays = <<Lightbox(Href(i))>>
    /\ lastClick = ImageTarget

\* C29: the components do not depend on each other.  Whatever became of
\* the Gallery Sorter (it reordered the grid, is waiting for images,
\* failed on an image or on a figure without one, or stopped on the
\* missing grid), after page-ready the gallery's click listener is
\* registered if the page has a gallery container, the list holds the
\* entries of the article's headings, and with the listener registered an
\* image click opens one overlay and an overlay click removes one.
C29_Independent ==
  /\ [](phase = "ready"
          => /\ galleryPresent => listening
             /\ toc = <<Entry(headings[1]), Entry(headings[2])>>)
  /\ [][/\ (listening /\ GalleryClick) => Len(overlays') = Len(overlays) + 1
        /\ OverlayClick => Len(overlays') = Len(overlays) - 1]_vars

\* the sorter stopped on the missing grid; the list is built and an
\* overlay is open
C29_Witness ==
  /\ ~gridPresent /\ galleryPresent
  /\ "TypeError: grid is null" \in errors
  /\ joinState = "none"
  /\ Len(toc) = 2
  /\ Len(overlays) = 1
  /\ lastClick = ImageTarget

\* C30: clicks and sorting do not interfere.  Opening or closing an
\* overlay changes nothing of the sorter's state or of the grid; the
\* reorder is there as soon as every image is in and none failed,
\* whatever overlays are open, and with all images loaded the figures,
\* the last children of the grid, are in the order the natural sizes
\* determine; and the step that reorders the grid leaves every overlay,
\* with its image source, as it was.
C30_NoInterference ==
  /\ [][(GalleryClick \/ OverlayClick) => UNCHANGED galleryVars]_vars
  /\ [][reorderCount' # reorderCount => overlays' = overlays]_vars
  /\ []((phase = "ready" /\ NoneFailed) => reorderCount = 1)
  /\ []((reorderCount >= 1 /\ AllLoaded)
          => InRatioOrder(LastChildren(grid, NumFigures)))

\* all images are in and the grid is reordered, with as many overlays
\* open as the bound allows
C30_Witness ==
  /\ reorderCount = 1
  /\ AllLoaded
  /\ NumFigures = 3
  /\ grid = <<3, 1, 2>>
  /\ Len(overlays) = MaxOverlays

\* C31: on a page without the gallery container the Lightbox Controller
\* registers no listener and raises no error, and no click creates an
\* overlay: the body never holds one.
C31_NoGallery ==
  ~galleryPresent
    => /\ ~listening
       /\ "TypeError: gallery is null" \notin errors
       /\ overlays = <<>>

\* page-ready has passed on a page without the container, and an image
\* of the page has been clicked
C31_Witness ==
  /\ ~galleryPresent
  /\ phase = "ready"
  /\ \E i \in Figures : hasImg[i]
  /\ lastClick = [inGallery |-> FALSE, tagName |-> "IMG"]
  /\ overlays = <<>>

\* C32: with several overlays in the document, a click on one of them
\* removes exactly that one and leaves the others, in their order; the
\* number of overlays goes down only by such a click and only by one, so
\* it is back at zero only after every overlay has been clicked; and
\* removeChild is never called for an overlay that has left the document.
C32_RemovesItsOwn ==
  /\ [][\A k \in 1..MaxOverlays :
          ClickOverlay(k) => overlays' = Without(overlays, k)]_vars
  /\ [][Len(overlays') < Len(overlays)
          => (OverlayClick /\ Len(overlays') = Len(overlays) - 1)]_vars
  /\ []("NotFoundError" \notin errors)

\* of two overlays of different sources the older one has been clicked:
\* the newer one is still there
C32_Witness ==
  /\ lastClick = OverlayTarget
  /\ linkShape = "parent"
  /\ Len(overlays) = MaxOverlays - 1
  /\ Len(overlays) >= 1
  /\ overlays[Len(overlays)].children[1].src = Href(1)
  /\ \A k \in 1..Len(overlays) : overlays[k].children[1].src # Href(2)

\* C33: an image that is complete when the sorter inspects it never makes
\* the join hang or fail, a broken one of natural size 0x0 included.  Its
\* promise is fulfilled in the page-ready step, for a broken image with
\* "NaN" recorded, and stays fulfilled; the join is rejected only by an
\* image that failed after page-ready and pending only for one still
\* loading; and once every promise is fulfilled the reorder has run, the
\* figures of broken images in the grid with the others.
C33_CompleteNeverBlocks ==
  /\ [][PageReady
          => \A i \in Figures :
               /\ imgState[i] = "broken"
                    => (dimPromise'[i] = "fulfilled"
                        /\ aspectRatio'[i].text = "NaN")
               /\ dimPromise'[i] \in {"pending", "rejected"}
                    => imgState[i] = "loading"]_vars
  /\ [][\A i \in Figures :
          dimPromise[i] = "fulfilled"
            => (dimPromise'[i] = "fulfilled"
                /\ aspectRatio'[i] = aspectRatio[i])]_vars
  /\ [](phase = "ready"
          => /\ joinState = "rejected"
                  <=> \E i \in Figures : dimPromise[i] = "rejected"
             /\ joinState = "pending"
                  => \E i \in Figures :
                       dimPromise[i] = "pending" /\ imgState[i] = "loading"
             /\ (\A i \in Figures : dimPromise[i] = "fulfilled")
                  => /\ joinState = "fulfilled"
                     /\ reorderCount = 1
                     /\ Len(grid) = NumFigures
                     /\ \A i \in Figures : \E k \in 1..Len(grid) : grid[k] = i)

\* the image of the second figure was broken before page-ready, the
\* other two loaded after it: the grid has been reordered with "NaN"
\* recorded on the second figure
C33_Witness ==
  /\ NumFigures = 3
  /\ imgState = <<"loaded", "broken", "loaded">>
  /\ dimPromise = <<"fulfilled", "fulfilled", "fulfilled">>
  /\ aspectRatio[2].text = "NaN"
  /\ joinState = "fulfilled"
  /\ reorderCount = 1

\* C34 as stated: the event of a click on a gallery image has its default
\* action, the navigation of the enclosing link, prevented in every
\* state; the event of a click on anything else inside the gallery has
\* not.
C34_PreventsNavigation_AsStated ==
  /\ lastClick = ImageTarget => defaultPrevented
  /\ (lastClick.inGallery /\ lastClick.tagName # "IMG") => ~defaultPrevented

\* C34: once the gallery's click listener is registered, at page-ready,
\* the event of a click on a gallery image has its default action
\* prevented, whether or not an overlay is open; before that the click
\* reaches no listener and the link is followed; the event of a click on
\* anything else inside the gallery never has its default prevented.
C34_PreventsNavigation ==
  /\ [][\A i \in Figures :
          ClickImage(i) => (defaultPrevented' <=> listening)]_vars
  /\ [][\A e \in OtherTargets :
          (e.inGallery /\ ClickOther(e)) => ~defaultPrevented']_vars

\* a gallery image has been clicked while an overlay was open
C34_Witness ==
  /\ lastClick = ImageTarget
  /\ defaultPrevented
  /\ Len(overlays) = 2

\* a caption of the gallery has been clicked after page-ready, while an
\* overlay was open
C34_WitnessCaption ==
  /\ listening
  /\ lastClick = [inGallery |-> TRUE, tagName |-> "FIGCAPTION"]
  /\ ~defaultPrevented
  /\ Len(overlays) = 1

\* the later gallery shows images of the example's sizes
LaterNatural == ExampleGallery(Len(laterGrid))

\* C35: on a page with two galleries only the first grid is reordered and
\* only the first container opens the lightbox.  The children of the
\* later grid stay in their original order in every step; a click on an
\* image of the later gallery creates no overlay and does not keep its
\* link from being followed; the first gallery works as on a page of its
\* own once its listener is registered.
C35_FirstGalleryOnly ==
  /\ [](laterGrid = [j \in 1..Len(laterGrid) |-> j])
  /\ [][LaterClick => (overlays' = overlays /\ ~defaultPrevented')]_vars
  /\ [][(listening /\ GalleryClick)
          => Len(overlays') = Len(overlays) + 1]_vars
  /\ []((reorderCount >= 1 /\ AllLoaded) => InRatioOrder(grid))

\* both galleries show 400x300, 300x300 and 600x200: the first has been
\* reordered, the later one has not, and the click on one of its images
\* has left the body without an overlay
C35_Witness ==
  /\ NumFigures = 3
  /\ reorderCount = 1
  /\ grid = <<3, 1, 2>>
  /\ laterGrid = <<1, 2, 3>>
  /\ LaterNatural = natural
  /\ listening
  /\ lastClick = LaterImageTarget
  /\ overlays = <<>>

\* C36: after the reorder the collected figures are the last children of
\* the grid, each of them once and as a direct child, a figure that was
\* nested in another element included; all children that are no figures
\* precede them, and the reorder step leaves those as they were; with
\* all images loaded the figures are in the order of their ratios.
C36_FiguresLast ==
  /\ [](reorderCount >= 1
          => /\ Len(grid) >= NumFigures
             /\ \A i \in Figures :
                  \E k \in 1..NumFigures :
                    LastChildren(grid, NumFigures)[k] = i
             /\ \A k \in 1..(Len(grid) - NumFigures) : grid[k] <= 0
             /\ AllLoaded => InRatioOrder(LastChildren(grid, NumFigures)))
  /\ [][reorderCount' # reorderCount
          => NonFigures(grid') = NonFigures(grid)]_vars

\* the grid held an element with the first figure in it, an element that
\* is no figure, and the other two figures: both elements now precede the
\* three figures, which are in the order of their ratios
C36_Witness ==
  /\ reorderCount = 1
  /\ AllLoaded
  /\ grid = <<-1, 0, 3, 1, 2>>

====
